---------------------------- MODULE Spec2Model ----------------------------
(***************************************************************************)
(* Drawing lifecycle of the Royal Rumble drawing bot (src/bot.py and       *)
(* src/app.py).  The state is the PostgreSQL database behind the single    *)
(* shared psycopg2 connection (the session's view, the committed view,    *)
(* the SERIAL sequences and the failed-transaction flag).  Every handler   *)
(* is one action: the SQL statements it executes are applied in order to   *)
(* a session record, an exception skips the statements up to the except    *)
(* clause that catches it; the handler's outcome is the session it leaves  *)
(* and the message it sends.                                               *)
(***************************************************************************)
EXTENDS Integers, Sequences, FiniteSets, TLC

VARIABLES
    prog,       \* which program is deployed: "bot" (src/bot.py) or "app" (src/app.py)
    db,         \* the tables as the connection's open transaction sees them
    committed,  \* the tables as committed
    seq,        \* the SERIAL sequences (never rolled back)
    failed,     \* TRUE while the connection's transaction is aborted
    taskAlive,  \* TRUE while the check_drawings loop is still scheduled
    suspended,  \* the locals of a check_drawings run that awaits its winner announcement
    waiting     \* the drawings of the delete_drawing calls that await their confirmation

vars == <<prog, db, committed, seq, failed, taskAlive, suspended, waiting>>

-----------------------------------------------------------------------------
(* Bounds of the model *)

MaxDrawingId == 2      \* drawings_drawing_id_seq stops here
MaxEntryId == 2        \* entries_entry_id_seq stops here (general specification)
MaxResultId == 2       \* results_result_id_seq stops here
MaxNumber == 2         \* explicit entrant numbers offered to the handlers: 1..MaxNumber

(* Program constants *)

(* A capacity test that lets one entry too many through (> for >=) *)
MaxEntriesOver == 30 + 1

MaxEntries == 30       \* "if num_entries >= 30", "set(range(1, 31))"
Int4Max == 2147483647  \* range of an INT column

NULL == -1             \* SQL NULL / Python None in an integer position

(* A Discord id (ctx.author.id, Member.id) is a snowflake: the            *)
(* milliseconds between 2015 and the creation of the account, shifted     *)
(* left by 22 bits, plus 22 low bits.  A user is kept as the milliseconds *)
(* part of its id, the low bits being 0.                                  *)
SnowflakeShift == 2^22
Users == {100000}

(* Drawing names are sequences of tokens, so that f"test_{name}" and      *)
(* name.startswith("test_") are computed and not assumed.                 *)
BaseNames == {<<"raffle">>}
TestName(name) == <<"test_">> \o name
Names == BaseNames \cup {TestName(n) : n \in BaseNames}
(* A test check that never recognises a test drawing *)
StartsWithNothing(name) == FALSE

StartsWithTest(name) == Len(name) > 0 /\ name[1] = "test_"

EntrantName(n) == <<"Entrant ", ToString(n)>>     \* f"Entrant {entrant_number}"
NoText == <<>>                         \* NULL in a VARCHAR position

EditStatuses == {"active", "inactive", "eliminated"}


-----------------------------------------------------------------------------
(* The schema, as the CREATE TABLE statements declare it *)

Tables == {"drawings", "entries", "entry_users", "archived_drawings",
           "archived_entries", "archived_entry_users", "results"}

Columns(t) ==
    CASE t = "drawings" -> <<"drawing_id", "name", "status", "is_archived", "time_limit_hours">>
      [] t = "entries" -> <<"entry_id", "entrant_number", "entrant_name", "drawing_id",
                            "eliminated_by", "status">>
      [] t = "entry_users" -> <<"entry_id", "user_id">>
      [] t = "archived_drawings" -> <<"drawing_id", "name", "status">>
      [] t = "archived_entries" -> <<"entry_id", "entrant_number", "entrant_name", "drawing_id",
                                     "eliminated_by", "status">>
      [] t = "archived_entry_users" -> <<"entry_id", "user_id">>
      [] t = "results" -> <<"result_id", "drawing_id", "winner_id">>

ColumnSet(t) == {Columns(t)[i] : i \in 1..Len(Columns(t))}

(* INT columns (user_id is BIGINT, the others are VARCHAR or BOOLEAN) *)
IntColumns == {"drawing_id", "entry_id", "entrant_number", "time_limit_hours",
               "result_id", "winner_id"}

PrimaryKey(t) ==
    CASE t \in {"drawings", "archived_drawings"} -> {"drawing_id"}
      [] t \in {"entries", "archived_entries"} -> {"entry_id"}
      [] t \in {"entry_users", "archived_entry_users"} -> {"entry_id", "user_id"}
      [] t = "results" -> {"result_id"}

(* UNIQUE constraints besides the primary key: drawings.name only.        *)
(* entries carries no UNIQUE (drawing_id, entrant_number).                *)
UniqueColumns(t) == IF t = "drawings" THEN {"name"} ELSE {}

(* FOREIGN KEY (column) REFERENCES table (column); none has ON DELETE.    *)
ForeignKeys ==
    { [from |-> "entries", col |-> "drawing_id", to |-> "drawings", ref |-> "drawing_id"],
      [from |-> "entry_users", col |-> "entry_id", to |-> "entries", ref |-> "entry_id"],
      [from |-> "results", col |-> "drawing_id", to |-> "drawings", ref |-> "drawing_id"] }

(* The SERIAL column of a table and the sequence that feeds it *)
SerialColumn(t) ==
    CASE t \in {"drawings", "archived_drawings"} -> "drawing_id"
      [] t \in {"entries", "archived_entries"} -> "entry_id"
      [] t = "results" -> "result_id"
      [] OTHER -> "none"

(* Column defaults other than the SERIAL one *)
DefaultOf(t, c) ==
    CASE t = "drawings" /\ c = "status" -> "closed"
      [] t = "drawings" /\ c = "is_archived" -> FALSE
      [] t = "entries" /\ c = "status" -> "pending"
      [] c \in IntColumns \cup {"user_id"} -> NULL
      [] OTHER -> NoText

EmptyDb == [t \in Tables |-> {}]

-----------------------------------------------------------------------------
(* The psycopg2 session: cursor.execute, mydb.commit, mydb.rollback *)

NoExc == "none"

Raise(s, e) == [s EXCEPT !.exc = e]

(* A server on which a rejected statement leaves the transaction open *)
StatementError(s, e) == [s EXCEPT !.exc = e]

(* A statement the server rejects aborts the open transaction: its        *)
(* changes are lost and every later statement is refused until the        *)
(* transaction ends.                                                      *)
SqlError(s, e) == [s EXCEPT !.exc = e, !.failed = TRUE, !.db = s.committed]

(* An exception was caught by an except clause: execution goes on *)
Caught(s) == [s EXCEPT !.exc = NoExc]

Commit(s) ==
    IF s.exc # NoExc THEN s
    ELSE IF s.failed THEN [s EXCEPT !.failed = FALSE, !.db = s.committed]
    ELSE [s EXCEPT !.committed = s.db]

(* An except clause that forgets mydb.rollback() *)
NoRollback(s) == s

Rollback(s) ==
    IF s.exc # NoExc THEN s
    ELSE [s EXCEPT !.failed = FALSE, !.db = s.committed]

(* A statement that only reads (SELECT, CREATE TABLE IF NOT EXISTS on an  *)
(* existing table, ALTER TABLE ADD COLUMN IF NOT EXISTS on an existing    *)
(* column) naming the columns `cols` of table t.                          *)
Select(s, t, cols) ==
    IF s.exc # NoExc THEN s
    ELSE IF s.failed THEN Raise(s, "InFailedSqlTransaction")
    ELSE IF ~(cols \subseteq ColumnSet(t)) THEN SqlError(s, "UndefinedColumn")
    ELSE s

InRange(c, v) == (c \in IntColumns) => (v <= Int4Max /\ v >= -Int4Max - 1)

(* The constraint a new or changed row `r` of table t violates in the     *)
(* table contents `others` (the rows of t other than r), or NoExc.        *)
Violation(d, t, r, others) ==
    IF \E c \in ColumnSet(t) : ~InRange(c, r[c]) THEN "NumericValueOutOfRange"
    ELSE IF \E c \in PrimaryKey(t) : r[c] = NULL THEN "NotNullViolation"
    ELSE IF \E o \in others : \A c \in PrimaryKey(t) : o[c] = r[c] THEN "UniqueViolation"
    ELSE IF \E c \in UniqueColumns(t) : \E o \in others : o[c] = r[c] THEN "UniqueViolation"
    ELSE IF \E k \in ForeignKeys :
                /\ k.from = t
                /\ r[k.col] # NULL
                /\ ~\E p \in d[k.to] : p[k.ref] = r[k.col]
         THEN "ForeignKeyViolation"
    ELSE NoExc

(* The write statements a handler has sent, by table *)
Issue(s, t) == [s EXCEPT !.issued = @ \cup {t}]

(* The id of `user` bound to a placeholder of an INT column of table t:   *)
(* user * SnowflakeShift has to fit the column.                           *)
BindId(s, t, user) ==
    IF s.exc # NoExc THEN s
    ELSE IF s.failed THEN Raise(Issue(s, t), "InFailedSqlTransaction")
    ELSE IF user > Int4Max \div SnowflakeShift
         THEN SqlError(Issue(s, t), "NumericValueOutOfRange")
    ELSE s

(* INSERT INTO t (DOMAIN vals) VALUES (vals): a literal that does not fit *)
(* its column is rejected when the statement is planned; otherwise the    *)
(* SERIAL column takes the next value of its sequence, which stays        *)
(* consumed even if a constraint then rejects the row.                    *)
Insert(s, t, vals) ==
    IF s.exc # NoExc THEN s
    ELSE IF s.failed THEN Raise(Issue(s, t), "InFailedSqlTransaction")
    ELSE IF ~(DOMAIN vals \subseteq ColumnSet(t)) THEN SqlError(Issue(s, t), "UndefinedColumn")
    ELSE IF \E c \in DOMAIN vals : ~InRange(c, vals[c])
         THEN SqlError(Issue(s, t), "NumericValueOutOfRange")
    ELSE LET sc == SerialColumn(t)
             draws == sc # "none" /\ sc \notin DOMAIN vals
             id == s.seq[t] + 1
             s1 == IF draws THEN [Issue(s, t) EXCEPT !.seq[t] = id] ELSE Issue(s, t)
             r == [c \in ColumnSet(t) |->
                       IF c \in DOMAIN vals THEN vals[c]
                       ELSE IF draws /\ c = sc THEN id
                       ELSE DefaultOf(t, c)]
             v == Violation(s.db, t, r, s.db[t])
         IN IF v # NoExc THEN SqlError(s1, v)
            ELSE [s1 EXCEPT !.db[t] = @ \cup {r}, !.rowcount = 1]

(* WHERE c1 = v1 AND c2 = v2 ...: `where` maps the columns to the values *)
Rows(d, t, where) == {r \in d[t] : \A c \in DOMAIN where : r[c] = where[c]}

(* WHERE col IN (SELECT sel FROM sub WHERE ...) *)
RowsIn(d, t, col, sub, sel, where) == {r \in d[t] : r[col] \in {x[sel] : x \in Rows(d, sub, where)}}

(* UPDATE t SET (assign) on the rows `rows`, selected by the columns `cols` *)
UpdateRows(s0, t, cols, rows, assign) ==
    IF s0.exc # NoExc THEN s0
    ELSE IF s0.failed THEN Raise(Issue(s0, t), "InFailedSqlTransaction")
    ELSE IF ~((DOMAIN assign \cup cols) \subseteq ColumnSet(t))
         THEN SqlError(Issue(s0, t), "UndefinedColumn")
    ELSE LET s == Issue(s0, t)
             new(r) == [c \in ColumnSet(t) |-> IF c \in DOMAIN assign THEN assign[c] ELSE r[c]]
             kept == s.db[t] \ rows
             table == kept \cup {new(r) : r \in rows}
             bad == {Violation(s.db, t, new(r), kept \cup {new(o) : o \in rows \ {r}}) : r \in rows}
                        \ {NoExc}
         IN IF bad # {} THEN SqlError(s, CHOOSE v \in bad : TRUE)
            ELSE [s EXCEPT !.db[t] = table, !.rowcount = Cardinality(rows)]

(* UPDATE t SET (assign) WHERE (where) *)
Update(s, t, where, assign) == UpdateRows(s, t, DOMAIN where, Rows(s.db, t, where), assign)

(* DELETE FROM t on the rows `rows`, selected by the columns `cols`: a    *)
(* row still referenced through a foreign key cannot be deleted.          *)
DeleteRows(s0, t, cols, rows) ==
    IF s0.exc # NoExc THEN s0
    ELSE IF s0.failed THEN Raise(Issue(s0, t), "InFailedSqlTransaction")
    ELSE IF ~(cols \subseteq ColumnSet(t)) THEN SqlError(Issue(s0, t), "UndefinedColumn")
    ELSE LET s == Issue(s0, t) IN
         IF \E k \in ForeignKeys : /\ k.to = t
                                   /\ \E r \in rows : \E c \in s.db[k.from] : c[k.col] = r[k.ref]
         THEN SqlError(s, "ForeignKeyViolation")
    ELSE [s EXCEPT !.db[t] = @ \ rows, !.rowcount = Cardinality(rows)]

(* DELETE FROM t WHERE (where) *)
Delete(s, t, where) == DeleteRows(s, t, DOMAIN where, Rows(s.db, t, where))

(* DELETE FROM t WHERE col IN (SELECT sel FROM sub WHERE (where)) *)
DeleteIn(s, t, col, sub, sel, where) ==
    DeleteRows(s, t, {col}, RowsIn(s.db, t, col, sub, sel, where))

(* INSERT INTO t SELECT * FROM src on the rows `rows` of src: they are    *)
(* assigned to the columns of t by position; more source columns than     *)
(* target columns is an error, missing ones take their default.           *)
InsertSelectRows(s0, t, src, rows) ==
    IF s0.exc # NoExc THEN s0
    ELSE IF s0.failed THEN Raise(Issue(s0, t), "InFailedSqlTransaction")
    ELSE IF Len(Columns(src)) > Len(Columns(t)) THEN SqlError(Issue(s0, t), "SyntaxError")
    ELSE LET s == Issue(s0, t)
             conv(r) == [c \in ColumnSet(t) |->
                            LET i == CHOOSE j \in 1..Len(Columns(t)) : Columns(t)[j] = c
                            IN IF i <= Len(Columns(src)) THEN r[Columns(src)[i]]
                               ELSE DefaultOf(t, c)]
             new == {conv(r) : r \in rows}
             bad == {Violation(s.db, t, n, s.db[t] \cup (new \ {n})) : n \in new} \ {NoExc}
         IN IF bad # {} THEN SqlError(s, CHOOSE v \in bad : TRUE)
            ELSE [s EXCEPT !.db[t] = @ \cup new, !.rowcount = Cardinality(new)]

(* INSERT INTO t SELECT * FROM src WHERE (where) *)
InsertSelect(s, t, src, where) == InsertSelectRows(s, t, src, Rows(s.db, src, where))

(* INSERT INTO t SELECT * FROM src WHERE col IN (SELECT sel FROM sub WHERE (where)) *)
InsertSelectIn(s, t, src, col, sub, sel, where) ==
    InsertSelectRows(s, t, src, RowsIn(s.db, src, col, sub, sel, where))

(* A cursor whose lastrowid is the key of the first row inserted *)
lastrowid_first == 0 + 1

(* cursor.lastrowid: the OID of the inserted row; the tables are created  *)
(* without OIDs, so it is never the SERIAL entry_id of the new row.       *)
lastrowid == 0

-----------------------------------------------------------------------------
(* Handler calls *)

Session == [db |-> db, committed |-> committed, seq |-> seq, failed |-> failed,
            exc |-> NoExc, rowcount |-> 0, issued |-> {}]

(* The outcome of a handler: the session it leaves and the message it    *)
(* sends ("Raised" when an exception leaves the handler).                *)
Done(s, result) == [s |-> s, result |-> result]

(* What a handler leaves behind on the shared connection *)
Effect(s) ==
    /\ db' = s.db
    /\ committed' = s.committed
    /\ seq' = s.seq
    /\ failed' = s.failed

(* A command handler: the periodic task is not touched *)
Call(out) ==
    /\ Effect(out.s)
    /\ UNCHANGED <<prog, taskAlive, suspended, waiting>>

DrawingsNamed(s, name) == {d \in s.db.drawings : d.name = name}
EntriesOf(s, drawing_id) == {e \in s.db.entries : e.drawing_id = drawing_id}

-----------------------------------------------------------------------------
(* create_drawing, create_test_drawing: identical in bot.py and app.py *)

create_drawing_body(s0, name) ==
    LET s1 == Insert(s0, "drawings", [name |-> name])
        s2 == Commit(s1)
    IN  IF s2.exc = NoExc THEN Done(s2, "Created")
        ELSE IF s2.exc = "UniqueViolation" THEN Done(Caught(s2), "AlreadyExists")
        ELSE Done(Caught(s2), "Error")

create_drawing(name) ==
    Call(create_drawing_body(Session, name))

(* A create_test_drawing that leaves the status to the column default *)
create_test_drawing_closed(s0, name) ==
    LET s2 == Commit(Insert(s0, "drawings", [name |-> TestName(name)]))
    IN  IF s2.exc = NoExc THEN Done(s2, "Created")
        ELSE IF s2.exc = "UniqueViolation" THEN Done(Caught(s2), "AlreadyExists")
        ELSE Done(Caught(s2), "Error")

create_test_drawing_body(s0, name) ==
    LET s1 == Insert(s0, "drawings", [name |-> TestName(name), status |-> "open"])
        s2 == Commit(s1)
    IN  IF s2.exc = NoExc THEN Done(s2, "Created")
        ELSE IF s2.exc = "UniqueViolation" THEN Done(Caught(s2), "AlreadyExists")
        ELSE Done(Caught(s2), "Error")

create_test_drawing(name) ==
    Call(create_test_drawing_body(Session, name))


-----------------------------------------------------------------------------
(* join_drawing *)

(* set(range(1, 31)) - set(taken_numbers) *)
available_numbers(s, drawing_id) ==
    (1..MaxEntries) \ {e.entrant_number : e \in EntriesOf(s, drawing_id)}

(* bot.py join_drawing; app.py join_drawing_text has the same statements  *)
(* but reaches random.choice, a name app.py never imports.  `pick` is the *)
(* number random.choice returns; `dm` the exception of the direct message *)
(* sent after the commit (NoExc when it is delivered).                    *)
join_drawing_body(s0, name, user, pick, choice, dm) ==
    LET s1 == Select(s0, "drawings", {"drawing_id", "status", "name"})
        found == DrawingsNamed(s1, name)
        d == CHOOSE x \in found : TRUE
    IN  IF s1.exc # NoExc THEN Done(s1, "Raised")
        ELSE IF found = {} THEN Done(s1, "NotFound")
        ELSE IF d.status = "closed" THEN Done(s1, "Closed")
        ELSE LET s2 == Select(s1, "entries", {"entrant_number", "drawing_id"})
                 free == available_numbers(s2, d.drawing_id)
                 s3 == IF s2.exc = NoExc /\ choice # NoExc THEN Raise(s2, choice) ELSE s2
                 s4 == Insert(s3, "entries", [user_id |-> user, drawing_id |-> d.drawing_id,
                                              entrant_number |-> pick])
                 s5 == Commit(s4)
                 s6 == IF s5.exc = NoExc /\ dm # NoExc THEN Raise(s5, dm) ELSE s5
             IN  IF s2.exc = NoExc /\ free = {} THEN Done(s2, "Full")
                 ELSE IF s6.exc = NoExc THEN Done(s6, "Joined")
                 ELSE IF s6.exc = "UniqueViolation" THEN Done(Caught(s6), "AlreadyJoined")
                 ELSE Done(Caught(s6), "Error")

(* The values random.choice(list(available_numbers)) can return for a     *)
(* join of the drawing `name` (one value when the handler never gets to   *)
(* the choice).                                                           *)
random_choice(name) ==
    LET found == DrawingsNamed(Session, name)
        free == available_numbers(Session, (CHOOSE x \in found : TRUE).drawing_id)
    IN  IF found = {} \/ free = {} THEN {1} ELSE free

(* Messageable.send takes no `ephemeral` argument: ctx.author.send(...,   *)
(* ephemeral=True) raises TypeError.                                      *)
DirectMessage == "TypeError"

join_drawing(name, user, pick) ==
    /\ prog = "bot"
    /\ pick \in random_choice(name)
    /\ Call(join_drawing_body(Session, name, user, pick, NoExc, DirectMessage))

join_drawing_text(name, user, pick) ==
    /\ prog = "app"
    /\ pick \in random_choice(name)
    /\ Call(join_drawing_body(Session, name, user, pick, "NameError", DirectMessage))

(* app.py join_drawing_slash: the reply goes through interaction.response *)
join_drawing_slash(name, user, pick) ==
    /\ prog = "app"
    /\ pick \in random_choice(name)
    /\ Call(join_drawing_body(Session, name, user, pick, "NameError", NoExc))

-----------------------------------------------------------------------------
(* start_drawing, stop_drawing, set_drawing_status, set_drawing_time_limit *)

(* UPDATE drawings SET (assign) WHERE name = %s; commit; rowcount *)
update_drawing_body(s0, name, assign, ok) ==
    LET s1 == Update(s0, "drawings", [name |-> name], assign)
        s2 == Commit(s1)
    IN  IF s2.exc # NoExc THEN Done(Caught(s2), "Error")
        ELSE IF s2.rowcount > 0 THEN Done(s2, ok)
        ELSE Done(s2, "NotFound")

(* bot.py start_drawing *)
start_drawing(name) ==
    /\ prog = "bot"
    /\ Call(update_drawing_body(Session, name, [status |-> "open"], "Started"))

(* bot.py stop_drawing *)
stop_drawing(name) ==
    /\ prog = "bot"
    /\ Call(update_drawing_body(Session, name, [status |-> "closed"], "Stopped"))

(* app.py start_drawing_slash, start_drawing_text: start_time = now() *)
start_drawing_slash(name) ==
    /\ prog = "app"
    /\ Call(update_drawing_body(Session, name, [status |-> "open", start_time |-> "now"], "Started"))

(* app.py stop_drawing_slash, stop_drawing_text: start_time = NULL *)
stop_drawing_slash(name) ==
    /\ prog = "app"
    /\ Call(update_drawing_body(Session, name, [status |-> "closed", start_time |-> NULL], "Stopped"))

(* set_drawing_status: identical in bot.py and app.py *)
set_drawing_status_body(s0, name, status) ==
    IF status \notin {"open", "closed"} THEN Done(s0, "InvalidStatus")
    ELSE update_drawing_body(s0, name, [status |-> status], "StatusSet")

set_drawing_status(name, status) ==
    Call(set_drawing_status_body(Session, name, status))

(* app.py set_drawing_time_limit_slash, set_drawing_time_limit_text *)
set_drawing_time_limit_body(s0, name, hours) ==
    LET s1 == Select(s0, "drawings", {"drawing_id", "name"})
        found == DrawingsNamed(s1, name)
        d == CHOOSE x \in found : TRUE
        s2 == Commit(Select(s1, "drawings", {"time_limit_hours"}))
        s3 == Commit(Update(s2, "drawings", [drawing_id |-> d.drawing_id],
                            [time_limit_hours |-> hours]))
    IN  IF s1.exc # NoExc THEN Done(Caught(s1), "Error")
        ELSE IF found = {} THEN Done(s1, "NotFound")
        ELSE IF s3.exc # NoExc THEN Done(Caught(s3), "Error")
        ELSE Done(s3, "LimitSet")

set_drawing_time_limit(name, hours) ==
    /\ prog = "app"
    /\ Call(set_drawing_time_limit_body(Session, name, hours))

-----------------------------------------------------------------------------
(* change_entrant: identical in bot.py and app.py *)

change_entrant_body(s0, name, old, new) ==
    LET s1 == Select(s0, "drawings", {"drawing_id", "name"})
        found == DrawingsNamed(s1, name)
        d == CHOOSE x \in found : TRUE
        s2 == Commit(Update(s1, "entries", [drawing_id |-> d.drawing_id, entrant_number |-> old],
                            [entrant_number |-> new]))
    IN  IF s1.exc # NoExc THEN Done(Caught(s1), "Error")
        ELSE IF found = {} THEN Done(s1, "NotFound")
        ELSE IF s2.exc # NoExc THEN Done(Caught(s2), "Error")
        ELSE IF s2.rowcount > 0 THEN Done(s2, "Changed")
        ELSE Done(s2, "NoEntry")

change_entrant(name, old, new) ==
    Call(change_entrant_body(Session, name, old, new))


-----------------------------------------------------------------------------
(* add_entry *)

RECURSIVE insert_entry_users(_, _, _)
(* for user in users: INSERT INTO entry_users (entry_id, user_id) *)
insert_entry_users(s, entry_id, users) ==
    IF users = <<>> THEN s
    ELSE insert_entry_users(
             Insert(s, "entry_users", [entry_id |-> entry_id, user_id |-> Head(users)]),
             entry_id, Tail(users))

Max(S) == CHOOSE x \in S : \A y \in S : y <= x

(* SELECT MAX(entrant_number); entrant_number = max_entrant + 1 if max_entrant else 1 *)
next_entrant_number(s, drawing_id) ==
    LET nums == {e.entrant_number : e \in EntriesOf(s, drawing_id)} \ {NULL}
        max_entrant == IF nums = {} THEN NULL ELSE Max(nums)
    IN  IF max_entrant # NULL /\ max_entrant # 0 THEN max_entrant + 1 ELSE 1

(* The statements from the capacity check on, shared by bot.py add_entry, *)
(* app.py add_entry_slash / add_entry_text and app.py add_entry_cmd.      *)
(* `compare` is the exception of "num_entries >= 30" (app.py compares the *)
(* fetched row, a tuple, with 30); `dm` that of the direct messages sent  *)
(* to the added users after the commit.                                   *)
add_entry_rows(s1, drawing_id, users, entrant_number, entrant_name, compare, dm) ==
    LET s2 == Select(s1, "entries", {"drawing_id"})
        num_entries == Cardinality(EntriesOf(s2, drawing_id))
        s3 == IF s2.exc = NoExc /\ compare # NoExc THEN Raise(s2, compare) ELSE s2
        s4 == IF entrant_number = NULL THEN Select(s3, "entries", {"entrant_number", "drawing_id"})
              ELSE s3
        number == IF entrant_number = NULL THEN next_entrant_number(s4, drawing_id)
                  ELSE entrant_number
        name == IF entrant_name = NoText THEN EntrantName(number) ELSE entrant_name
        s5 == Insert(s4, "entries", [entrant_number |-> number, entrant_name |-> name,
                                     drawing_id |-> drawing_id])
        entry_id == lastrowid
        s6 == Select(s5, "entry_users", {"user_id", "entry_id"})
        existing_user_ids == {r.user_id : r \in {x \in s6.db.entry_users : x.entry_id = entry_id}}
        added_users == SelectSeq(users, LAMBDA u : u \notin existing_user_ids)
        s7 == Commit(insert_entry_users(s6, entry_id, added_users))
        s8 == IF s7.exc = NoExc /\ added_users # <<>> /\ dm # NoExc THEN Raise(s7, dm) ELSE s7
    IN  IF s3.exc = NoExc /\ num_entries >= MaxEntries THEN Done(s3, "Full")
        ELSE IF s8.exc = "UniqueViolation" THEN Done(Caught(s8), "DuplicateUser")
        ELSE IF s8.exc # NoExc THEN Done(Caught(s8), "Error")
        ELSE IF added_users # <<>> THEN Done(s8, "Added")
        ELSE Done(s8, "NoUsersAdded")

add_entry_body(s0, drawing_name, users, entrant_number, entrant_name, compare, dm) ==
    LET s1 == Select(s0, "drawings", {"drawing_id", "name"})
        found == DrawingsNamed(s1, drawing_name)
        d == CHOOSE x \in found : TRUE
    IN  IF s1.exc # NoExc THEN Done(Caught(s1), "Error")
        ELSE IF found = {} THEN Done(s1, "NotFound")
        ELSE add_entry_rows(s1, d.drawing_id, users, entrant_number, entrant_name, compare, dm)

(* bot.py add_entry *)
add_entry(drawing_name, users, entrant_number, entrant_name) ==
    /\ prog = "bot"
    /\ Call(add_entry_body(Session, drawing_name, users, entrant_number, entrant_name,
                           NoExc, DirectMessage))

(* app.py add_entry_slash, add_entry_text *)
add_entry_slash(drawing_name, users, entrant_number, entrant_name) ==
    /\ prog = "app"
    /\ Call(add_entry_body(Session, drawing_name, users, entrant_number, entrant_name,
                           "TypeError", DirectMessage))

(* app.py add_entry_cmd, the helper behind the web form *)
add_entry_cmd(s0, drawing_id, entrant_number, entrant_name, user_ids) ==
    add_entry_rows(s0, drawing_id, user_ids, entrant_number, entrant_name, NoExc, NoExc)

(* app.py add_entry_web: the POST branch names user_ids, which the route  *)
(* never binds, so the helper is not scheduled.                           *)
add_entry_web ==
    /\ prog = "app"
    /\ Call(Done(Caught(Raise(Session, "NameError")), "Raised"))

-----------------------------------------------------------------------------
(* remove_entry: identical in bot.py and app.py *)

remove_entry_body(s0, drawing_name, user) ==
    LET s1 == Select(s0, "drawings", {"drawing_id", "name"})
        found == DrawingsNamed(s1, drawing_name)
        d == CHOOSE x \in found : TRUE
        s2 == Select(s1, "entries", {"entry_id", "user_id", "drawing_id"})
        rows == {e \in EntriesOf(s2, d.drawing_id) : e.user_id = user}
        e1 == CHOOSE e \in rows : TRUE
        s3 == Delete(s2, "entry_users", [user_id |-> user, entry_id |-> e1.entry_id])
        s4 == Delete(s3, "entries", [entry_id |-> e1.entry_id])
        s5 == Commit(s4)
    IN  IF s1.exc # NoExc THEN Done(Caught(s1), "Error")
        ELSE IF found = {} THEN Done(s1, "NotFound")
        ELSE IF s2.exc # NoExc THEN Done(Caught(s2), "Error")
        ELSE IF rows = {} THEN Done(s2, "NoEntry")
        ELSE IF s5.exc # NoExc THEN Done(Caught(s5), "Error")
        ELSE Done(s5, "Removed")

remove_entry(drawing_name, user) ==
    Call(remove_entry_body(Session, drawing_name, user))


-----------------------------------------------------------------------------
(* edit_entry *)

None == "None"      \* an optional str argument left out

(* The SET clause: only the fields supplied *)
set_clause(new_entrant_number, new_entrant_name, eliminated_by, status) ==
    LET fields == {c \in {"entrant_number", "entrant_name", "eliminated_by", "status"} :
                      \/ c = "entrant_number" /\ new_entrant_number # NULL
                      \/ c = "entrant_name" /\ new_entrant_name # NoText
                      \/ c = "eliminated_by" /\ eliminated_by # NoText
                      \/ c = "status" /\ status # None}
    IN  [c \in fields |->
            CASE c = "entrant_number" -> new_entrant_number
              [] c = "entrant_name" -> new_entrant_name
              [] c = "eliminated_by" -> eliminated_by
              [] c = "status" -> status]

NoNotification == "no notification"

(* The statements after the drawing lookup.  `notify` is the exception   *)
(* of the SELECT that looks up the users to notify of a new name: bot.py  *)
(* writes its placeholders as "?", which psycopg2 cannot fill; the web    *)
(* helper has no notification.  status is compared in lower case.         *)
edit_entry_rows(s1, drawing_id, entrant_number, new_entrant_number, new_entrant_name, eliminated_by, status, notify) ==
    LET assign == set_clause(new_entrant_number, new_entrant_name, eliminated_by, status)
        s2 == Commit(Update(s1, "entries",
                            [drawing_id |-> drawing_id, entrant_number |-> entrant_number],
                            assign))
        renamed == {e \in EntriesOf(s2, drawing_id) : e.entrant_number = new_entrant_number}
        s3 == IF \/ s2.exc # NoExc
                 \/ s2.rowcount = 0
                 \/ new_entrant_name = NoText
                 \/ notify = NoNotification THEN s2
              ELSE IF notify # NoExc THEN Raise(s2, notify)
              ELSE IF Cardinality(renamed) > 1 THEN SqlError(s2, "CardinalityViolation")
              ELSE Select(s2, "entry_users", {"user_id", "entry_id"})
    IN  IF status # None /\ status \notin EditStatuses THEN Done(s1, "InvalidStatus")
        ELSE IF DOMAIN assign = {} THEN Done(s1, "NothingToEdit")
        ELSE IF s3.exc # NoExc THEN Done(Caught(s3), "Error")
        ELSE IF s3.rowcount > 0 THEN Done(s3, "Updated")
        ELSE Done(s3, "NoEntry")

edit_entry_body(s0, drawing_name, entrant_number, new_entrant_number, new_entrant_name, eliminated_by, status, notify) ==
    LET s1 == Select(s0, "drawings", {"drawing_id", "name"})
        found == DrawingsNamed(s1, drawing_name)
        d == CHOOSE x \in found : TRUE
    IN  IF s1.exc # NoExc THEN Done(Caught(s1), "Error")
        ELSE IF found = {} THEN Done(s1, "NotFound")
        ELSE edit_entry_rows(s1, d.drawing_id, entrant_number, new_entrant_number,
                             new_entrant_name, eliminated_by, status, notify)

(* bot.py edit_entry: eliminated_by is stored as given *)
edit_entry(drawing_name, entrant_number, new_entrant_number, new_entrant_name, eliminated_by, status) ==
    /\ prog = "bot"
    /\ Call(edit_entry_body(Session, drawing_name, entrant_number, new_entrant_number,
                            new_entrant_name, eliminated_by, status, "TypeError"))

(* app.py edit_entry_slash, edit_entry (text), called without eliminated_by *)
edit_entry_text(drawing_name, entrant_number, new_entrant_number, new_entrant_name, status) ==
    /\ prog = "app"
    /\ Call(edit_entry_body(Session, drawing_name, entrant_number, new_entrant_number,
                            new_entrant_name, NoText, status, NoExc))

(* app.py edit_entry_cmd behind edit_entry_web, called without            *)
(* eliminated_by: no drawing lookup, no notification.                     *)
edit_entry_cmd(drawing_id, entrant_number, new_entrant_number, new_entrant_name, status) ==
    /\ prog = "app"
    /\ Call(edit_entry_rows(Session, drawing_id, entrant_number, new_entrant_number,
                            new_entrant_name, NoText, status, NoNotification))


-----------------------------------------------------------------------------
(* assign_winner *)

(* winner_identifier: int() accepts it, or MemberConverter resolves it to *)
(* a member, or neither.                                                  *)
EntrantNumber(n) == [kind |-> "number", number |-> n]
Mention(user) == [kind |-> "mention", user |-> user]
Unknown == [kind |-> "unknown"]

(* `index` is the exception of "drawing_id[0]": bot.py subscripts the     *)
(* drawing_id it has already unpacked from the row.                       *)
assign_winner_body(s0, drawing_name, winner_identifier, index) ==
    LET s1 == Select(s0, "drawings", {"drawing_id", "name"})
        live == DrawingsNamed(s1, drawing_name)
        s2 == IF live = {} THEN Select(s1, "archived_drawings", {"drawing_id", "name"}) ELSE s1
        result == IF live # {} THEN live
                  ELSE {d \in s2.db.archived_drawings : d.name = drawing_name}
        d == CHOOSE x \in result : TRUE
        byNumber == winner_identifier.kind = "number"
        s3 == IF ~byNumber THEN s2
              ELSE IF index # NoExc THEN Raise(s2, index)
              ELSE Select(s2, "entries", {"entry_id", "drawing_id", "entrant_number"})
        rows == {e \in EntriesOf(s3, d.drawing_id) : e.entrant_number = winner_identifier.number}
        s4 == IF byNumber THEN Select(s3, "entry_users", {"user_id", "entry_id"}) ELSE s3
        winner_id == IF byNumber THEN (CHOOSE e \in rows : TRUE).entry_id
                     ELSE winner_identifier.user * SnowflakeShift
        s5 == Insert(IF byNumber THEN s4 ELSE BindId(s4, "results", winner_identifier.user),
                     "results", [drawing_id |-> d.drawing_id, winner_id |-> winner_id])
        s6 == Update(s5, "entries", [entry_id |-> winner_id], [status |-> "winner"])
        s7 == Commit(s6)
    IN  IF s2.exc # NoExc THEN Done(Caught(s2), "Error")
        ELSE IF result = {} THEN Done(s2, "NotFound")
        ELSE IF s3.exc # NoExc THEN Done(Caught(s3), "Error")
        ELSE IF byNumber /\ rows = {} THEN Done(s3, "NoEntry")
        ELSE IF winner_identifier.kind = "unknown" THEN Done(s3, "InvalidIdentifier")
        ELSE IF StartsWithTest(d.name) THEN Done(s4, "TestDrawing")
        ELSE IF s7.exc # NoExc THEN Done(Caught(s7), "Error")
        ELSE Done(s7, "Assigned")

(* bot.py assign_winner *)
assign_winner(drawing_name, winner_identifier) ==
    /\ prog = "bot"
    /\ Call(assign_winner_body(Session, drawing_name, winner_identifier, "TypeError"))

(* app.py assign_winner_slash, assign_winner_text *)
assign_winner_slash(drawing_name, winner_identifier) ==
    /\ prog = "app"
    /\ Call(assign_winner_body(Session, drawing_name, winner_identifier, NoExc))

-----------------------------------------------------------------------------
(* delete_drawing: identical in bot.py and app.py.  `msg` is the reply    *)
(* bot.wait_for returns within 30 seconds, or "timeout".                  *)

(* A delete_drawing that does not look at the reply *)
delete_drawing_unconfirmed(s0, drawing_name, msg) ==
    LET s1 == Commit(Delete(s0, "drawings", [name |-> drawing_name]))
    IN  IF s1.exc # NoExc THEN Done(Caught(s1), "Error")
        ELSE IF s1.rowcount > 0 THEN Done(s1, "Deleted")
        ELSE Done(s1, "NotFound")

delete_drawing_body(s0, drawing_name, msg) ==
    LET s1 == Commit(Delete(s0, "drawings", [name |-> drawing_name]))
    IN  IF msg = "timeout" THEN Done(s0, "TimedOut")
        ELSE IF msg # "yes" THEN Done(s0, "Cancelled")
        ELSE IF s1.exc # NoExc THEN Done(Caught(s1), "Error")
        ELSE IF s1.rowcount > 0 THEN Done(s1, "Deleted")
        ELSE Done(s1, "NotFound")

delete_drawing(drawing_name, msg) ==
    Call(delete_drawing_body(Session, drawing_name, msg))


-----------------------------------------------------------------------------
(* archive_drawing, restore_drawing *)

(* An archive that copies the drawing, column by column, and forgets the  *)
(* deletes.                                                               *)
archive_copy_only(s, drawing_id) ==
    LET d == CHOOSE x \in s.db.drawings : x.drawing_id = drawing_id
    IN  Commit(Insert(s, "archived_drawings",
                      [drawing_id |-> d.drawing_id, name |-> d.name, status |-> d.status]))

(* The copy-then-delete sequence of archive_drawing *)
archive_steps(s, drawing_id) ==
    LET of_drawing == [drawing_id |-> drawing_id]
        s1 == InsertSelect(s, "archived_drawings", "drawings", of_drawing)
        s2 == InsertSelect(s1, "archived_entries", "entries", of_drawing)
        s3 == InsertSelectIn(s2, "archived_entry_users", "entry_users",
                             "entry_id", "entries", "entry_id", of_drawing)
        s4 == DeleteIn(s3, "entry_users", "entry_id", "entries", "entry_id", of_drawing)
        s5 == Delete(s4, "entries", of_drawing)
        s6 == Delete(s5, "drawings", of_drawing)
    IN  Commit(s6)

(* `creates`: app.py issues CREATE TABLE IF NOT EXISTS for the three      *)
(* archive tables and commits before the sequence.                        *)
archive_drawing_body(s0, drawing_name, creates) ==
    LET s1 == Select(s0, "drawings", {"drawing_id", "name"})
        found == DrawingsNamed(s1, drawing_name)
        drawing_id == (CHOOSE x \in found : TRUE).drawing_id
        s2 == IF creates
              THEN Commit(Select(Select(Select(s1, "archived_drawings", {}),
                                        "archived_entries", {}), "archived_entry_users", {}))
              ELSE s1
        s3 == archive_steps(s2, drawing_id)
    IN  IF s1.exc # NoExc THEN Done(Caught(s1), "Error")
        ELSE IF found = {} THEN Done(s1, "NotFound")
        ELSE IF s2.exc # NoExc THEN Done(Caught(s2), "Error")
        ELSE IF s3.exc # NoExc THEN Done(Rollback(Caught(s3)), "StepFailed")
        ELSE Done(s3, "Archived")

(* bot.py archive_drawing *)
archive_drawing(drawing_name) ==
    /\ prog = "bot"
    /\ Call(archive_drawing_body(Session, drawing_name, FALSE))

(* app.py archive_drawing *)
archive_drawing_text(drawing_name) ==
    /\ prog = "app"
    /\ Call(archive_drawing_body(Session, drawing_name, TRUE))

(* The copy-then-delete sequence of restore_drawing: the third statement  *)
(* copies archived_entry_users into archived_entry_users.                 *)
restore_steps(s, drawing_id) ==
    LET of_drawing == [drawing_id |-> drawing_id]
        s1 == InsertSelect(s, "drawings", "archived_drawings", of_drawing)
        s2 == InsertSelect(s1, "entries", "archived_entries", of_drawing)
        s3 == InsertSelectIn(s2, "archived_entry_users", "archived_entry_users",
                             "entry_id", "archived_entries", "entry_id", of_drawing)
        s4 == DeleteIn(s3, "archived_entry_users", "entry_id",
                       "archived_entries", "entry_id", of_drawing)
        s5 == Delete(s4, "archived_entries", of_drawing)
        s6 == Delete(s5, "archived_drawings", of_drawing)
    IN  Commit(s6)

(* restore_drawing: identical in bot.py and app.py (slash and text) *)
restore_drawing_body(s0, drawing_name) ==
    LET s1 == Select(s0, "archived_drawings", {"drawing_id", "name"})
        found == {d \in s1.db.archived_drawings : d.name = drawing_name}
        drawing_id == (CHOOSE x \in found : TRUE).drawing_id
        s2 == restore_steps(s1, drawing_id)
    IN  IF s1.exc # NoExc THEN Done(Caught(s1), "Error")
        ELSE IF found = {} THEN Done(s1, "NotFound")
        ELSE IF s2.exc # NoExc THEN Done(Rollback(Caught(s2)), "StepFailed")
        ELSE Done(s2, "Restored")

restore_drawing(drawing_name) ==
    Call(restore_drawing_body(Session, drawing_name))


-----------------------------------------------------------------------------
(* check_drawings: the task scheduled every 60 seconds *)

(* The orders in which a SELECT without ORDER BY can return the rows S *)
Orders(S) == {f \in [1..Cardinality(S) -> S] : \A i, j \in 1..Cardinality(S) : f[i] = f[j] => i = j}

(* bot.get_channel(int(os.getenv('DISCORD_CHANNEL_ID'))): the channel, or *)
(* None when the id names no channel the bot can see.                     *)
Channels == {"channel", "None"}

(* channel.send(...) through the local variable `channel`, which only a   *)
(* closure branch binds.                                                  *)
channel_send(s, channel) ==
    IF s.exc # NoExc THEN s
    ELSE IF channel = "unbound" THEN Raise(s, "UnboundLocalError")
    ELSE IF channel = "None" THEN Raise(s, "AttributeError")
    ELSE s

(* try: UPDATE drawings SET status = 'closed'; commit; channel = ...;     *)
(* channel.send(...)  except: print.  `st` carries the session, the local *)
(* variable channel and the log of what the sweep has done.               *)
close_drawing(st, drawing_id, chan, reason) ==
    LET s1 == Commit(Update(st.s, "drawings", [drawing_id |-> drawing_id],
                            [status |-> "closed"]))
    IN  IF s1.exc # NoExc THEN [st EXCEPT !.s = Caught(s1)]
        ELSE [s |-> Caught(channel_send(s1, chan)), channel |-> chan,
              log |-> IF chan = "channel"
                      THEN st.log \o <<<<reason, drawing_id>>, <<"announced", drawing_id>>>>
                      ELSE Append(st.log, <<reason, drawing_id>>)]

(* try: the winner is the one active entry; announce; INSERT INTO         *)
(* results; UPDATE entries; commit  except: print                         *)
record_winner(st, drawing_id) ==
    LET s1 == Select(st.s, "entries", {"entry_id", "drawing_id", "status"})
        active == {e \in EntriesOf(s1, drawing_id) : e.status = "active"}
        winner_entry_id == (CHOOSE e \in active : TRUE).entry_id
        s2 == channel_send(Select(s1, "entry_users", {"user_id", "entry_id"}), st.channel)
        s3 == Insert(s2, "results", [drawing_id |-> drawing_id, winner_id |-> winner_entry_id])
        s4 == Update(s3, "entries", [entry_id |-> winner_entry_id], [status |-> "winner"])
        s5 == Commit(s4)
    IN  IF s5.exc # NoExc THEN [st EXCEPT !.s = Caught(s5)]
        ELSE [st EXCEPT !.s = s5, !.log = Append(@, <<"winner", drawing_id>>)]

(* app.py only: the time-limit check on the start_time fetched with the   *)
(* open drawings; `expired` holds the drawings for which                  *)
(* now() - start_time exceeds the limit.                                  *)
check_time_limit(st, d, chan, expired) ==
    LET s1 == Select(st.s, "drawings", {"time_limit_hours", "drawing_id"})
        row == {x \in s1.db.drawings : x.drawing_id = d.drawing_id}
        time_limit_hours == (CHOOSE x \in row : TRUE).time_limit_hours
    IN  IF st.s.exc # NoExc \/ d.start_time = NULL THEN st
        ELSE IF s1.exc # NoExc \/ row = {} THEN [st EXCEPT !.s = s1]
        ELSE IF time_limit_hours = NULL THEN [st EXCEPT !.s = Raise(s1, "TypeError")]
        ELSE IF d.drawing_id \in expired
             THEN close_drawing([st EXCEPT !.s = s1], d.drawing_id, chan, "timeout")
        ELSE [st EXCEPT !.s = s1]

(* A capacity check that fires only above 30 entries *)
check_capacity_over(st, d, chan) ==
    LET s1 == Select(st.s, "entries", {"drawing_id"})
        num_entries == Cardinality(EntriesOf(s1, d.drawing_id))
    IN  IF s1.exc = NoExc /\ num_entries > MaxEntries
        THEN close_drawing([st EXCEPT !.s = s1], d.drawing_id, chan, "capacity")
        ELSE [st EXCEPT !.s = s1]

(* if num_entries >= 30: close *)
check_capacity(st, d, chan) ==
    LET s1 == Select(st.s, "entries", {"drawing_id"})
        num_entries == Cardinality(EntriesOf(s1, d.drawing_id))
    IN  IF s1.exc = NoExc /\ num_entries >= MaxEntries
        THEN close_drawing([st EXCEPT !.s = s1], d.drawing_id, chan, "capacity")
        ELSE [st EXCEPT !.s = s1]

(* if num_active == 1 and num_inactive > 0: record the winner *)
check_winner(st, d) ==
    LET s2 == Select(Select(st.s, "entries", {"drawing_id", "status"}),
                     "entries", {"drawing_id", "status"})
        num_active == Cardinality({e \in EntriesOf(s2, d.drawing_id) : e.status = "active"})
        num_inactive == Cardinality({e \in EntriesOf(s2, d.drawing_id) :
                                        e.status \in {"inactive", "eliminated"}})
    IN  IF s2.exc = NoExc /\ num_active = 1 /\ num_inactive > 0
        THEN record_winner([st EXCEPT !.s = s2], d.drawing_id)
        ELSE [st EXCEPT !.s = s2]

(* The body of "for drawing_id, name(, start_time) in open_drawings" *)
sweep_drawing(st, d, chan, timed, expired) ==
    IF timed THEN check_time_limit(check_winner(check_capacity(st, d, chan), d), d, chan, expired)
    ELSE check_winner(check_capacity(st, d, chan), d)

RECURSIVE sweep(_, _, _, _, _)
sweep(st, open_drawings, chan, timed, expired) ==
    IF open_drawings = <<>> \/ st.s.exc # NoExc THEN st
    ELSE sweep(sweep_drawing(st, Head(open_drawings), chan, timed, expired),
               Tail(open_drawings), chan, timed, expired)

OpenDrawings(s) == {d \in s.db.drawings : d.status = "open"}

(* No run of check_drawings is waiting at an await *)
NoSweep == [drawing_id |-> NULL]

(* `cols` are the columns the first SELECT names.  Nothing catches an     *)
(* exception raised outside the two try blocks: it ends the task.         *)
check_drawings_body(s0, cols, open_drawings, chan, timed, expired) ==
    LET s1 == Select(s0, "drawings", cols)
    IN  IF s1.exc # NoExc THEN [s |-> s1, channel |-> "unbound", log |-> <<>>]
        ELSE sweep([s |-> s1, channel |-> "unbound", log |-> <<>>],
                   open_drawings, chan, timed, expired)

Tick(st) ==
    /\ Effect(st.s)
    /\ taskAlive' = (st.s.exc = NoExc)
    /\ UNCHANGED <<prog, suspended, waiting>>

(* One run of the task of the deployed program: bot.py has no time-limit  *)
(* check, app.py fetches start_time with the open drawings.               *)
run_check_drawings(s0, open_drawings, chan, expired) ==
    IF prog = "bot"
    THEN check_drawings_body(s0, {"drawing_id", "name", "status"}, open_drawings, chan, FALSE, {})
    ELSE check_drawings_body(s0, {"drawing_id", "name", "start_time", "status"},
                             open_drawings, chan, TRUE, expired)

(* bot.py check_drawings *)
check_drawings(open_drawings, chan) ==
    /\ prog = "bot"
    /\ taskAlive
    /\ open_drawings \in Orders(OpenDrawings(Session))
    /\ Tick(run_check_drawings(Session, open_drawings, chan, {}))

(* app.py check_drawings *)
check_drawings_timed(open_drawings, chan, expired) ==
    /\ prog = "app"
    /\ taskAlive
    /\ open_drawings \in Orders(OpenDrawings(Session))
    /\ Tick(run_check_drawings(Session, open_drawings, chan, expired))

-----------------------------------------------------------------------------
(* The program after construction: the tables exist and are empty *)

Init ==
    /\ prog \in {"bot", "app"}
    /\ db = EmptyDb
    /\ committed = EmptyDb
    /\ seq = [t \in {"drawings", "entries", "results"} |-> 0]
    /\ failed = FALSE
    /\ taskAlive = TRUE
    /\ suspended = NoSweep
    /\ waiting = <<>>


-----------------------------------------------------------------------------
(* The commands the users and admins send, and the timer *)

UserLists == {<<>>} \cup {<<u>> : u \in Users}
Numbers == 1..MaxNumber
OptionalNumbers == {NULL} \cup Numbers
Identifiers == {EntrantNumber(n) : n \in Numbers} \cup {Mention(u) : u \in Users} \cup {Unknown}
Replies == {"yes", "no", "timeout"}
Hours == {0, 1}

(* The edits asked for: new_entrant_number, new_entrant_name, status *)
Edits ==
    {[number |-> n, name |-> NoText, status |-> None] : n \in OptionalNumbers}
        \cup {[number |-> NULL, name |-> <<"Rey">>, status |-> None]}
        \cup {[number |-> NULL, name |-> NoText, status |-> st] :
                 st \in {"active", "eliminated", "winner"}}

Next ==
    \/ \E name \in Names : seq.drawings < MaxDrawingId /\ create_drawing(name)
    \/ \E name \in BaseNames : seq.drawings < MaxDrawingId /\ create_test_drawing(name)
    \/ \E name \in Names, user \in Users, pick \in 1..MaxEntries : join_drawing(name, user, pick)
    \/ \E name \in Names, user \in Users, pick \in 1..MaxEntries :
          join_drawing_text(name, user, pick)
    \/ \E name \in Names, user \in Users, pick \in 1..MaxEntries :
          join_drawing_slash(name, user, pick)
    \/ \E name \in Names : start_drawing(name)
    \/ \E name \in Names : stop_drawing(name)
    \/ \E name \in Names : start_drawing_slash(name)
    \/ \E name \in Names : stop_drawing_slash(name)
    \/ \E name \in Names, status \in {"open", "closed", "paused"} : set_drawing_status(name, status)
    \/ \E name \in Names, hours \in Hours : set_drawing_time_limit(name, hours)
    \/ \E name \in Names, old \in Numbers, new \in Numbers : change_entrant(name, old, new)
    \/ \E name \in Names, users \in UserLists, number \in OptionalNumbers :
          seq.entries < MaxEntryId /\ add_entry(name, users, number, NoText)
    \/ \E name \in Names, users \in UserLists, number \in OptionalNumbers :
          seq.entries < MaxEntryId /\ add_entry_slash(name, users, number, NoText)
    \/ add_entry_web
    \/ \E name \in Names, user \in Users : remove_entry(name, user)
    \/ \E name \in Names, number \in Numbers, e \in Edits :
          edit_entry(name, number, e.number, e.name, NoText, e.status)
    \/ \E name \in Names, number \in Numbers, e \in Edits :
          edit_entry_text(name, number, e.number, e.name, e.status)
    \/ \E drawing_id \in 1..MaxDrawingId, number \in Numbers, e \in Edits :
          edit_entry_cmd(drawing_id, number, e.number, e.name, e.status)
    \/ \E name \in Names, id \in Identifiers :
          seq.results < MaxResultId /\ assign_winner(name, id)
    \/ \E name \in Names, id \in Identifiers :
          seq.results < MaxResultId /\ assign_winner_slash(name, id)
    \/ \E name \in Names, msg \in Replies : delete_drawing(name, msg)
    \/ \E name \in Names : archive_drawing(name)
    \/ \E name \in Names : archive_drawing_text(name)
    \/ \E name \in Names : restore_drawing(name)
    \/ \E chan \in Channels : \E order \in Orders(OpenDrawings(Session)) :
          seq.results < MaxResultId /\ check_drawings(order, chan)
    \/ \E chan \in Channels, expired \in {{}, 1..MaxDrawingId} :
          \E order \in Orders(OpenDrawings(Session)) :
             seq.results < MaxResultId /\ check_drawings_timed(order, chan, expired)

Spec == Init /\ [][Next]_vars


-----------------------------------------------------------------------------
(* Filling one drawing up to its capacity: bot.py, the one drawing        *)
(* "raffle", entries added with the default numbering, the first entries  *)
(* edited, the periodic task.                                             *)

MaxAdds == 31          \* entries_entry_id_seq stops here (capacity specification)

Raffle == <<"raffle">>

InitCapacity == Init /\ prog = "bot"

NextCapacity ==
    \/ seq.drawings < MaxDrawingId /\ create_drawing(Raffle)
    \/ start_drawing(Raffle)
    \/ seq.entries < MaxAdds /\ add_entry(Raffle, <<>>, NULL, NoText)
    \/ \E number \in Numbers, status \in {"active", "inactive"} :
          edit_entry(Raffle, number, NULL, NoText, NoText, status)
    \/ \E chan \in Channels : \E order \in Orders(OpenDrawings(Session)) :
          seq.results < MaxResultId /\ check_drawings(order, chan)

SpecCapacity == InitCapacity /\ [][NextCapacity]_vars

(* The same run on a test drawing, which create_test_drawing opens *)
TestRaffle == TestName(Raffle)

NextTestCapacity ==
    \/ seq.drawings < MaxDrawingId /\ create_test_drawing(Raffle)
    \/ seq.entries < MaxAdds /\ add_entry(TestRaffle, <<>>, NULL, NoText)
    \/ \E number \in Numbers, status \in {"active", "inactive"} :
          edit_entry(TestRaffle, number, NULL, NoText, NoText, status)
    \/ \E chan \in Channels : \E order \in Orders(OpenDrawings(Session)) :
          seq.results < MaxResultId /\ check_drawings(order, chan)

SpecTestCapacity == InitCapacity /\ [][NextTestCapacity]_vars

-----------------------------------------------------------------------------
(* bot.py check_drawings with its await on the winner announcement: the   *)
(* commands of the event loop run while channel.send is awaited.          *)

(* The run up to "await channel.send(... Congratulations ...)" for the    *)
(* first open drawing: capacity check, the two counts, the winner's       *)
(* entry_id, the users of the winner.                                     *)
winner_selected(s0, d, chan) ==
    LET st0 == [s |-> Select(s0, "drawings", {"drawing_id", "name", "status"}),
                channel |-> "unbound", log |-> <<>>]
        st1 == check_capacity(st0, d, chan)
        s2 == Select(Select(st1.s, "entries", {"drawing_id", "status"}),
                     "entries", {"drawing_id", "status"})
        active == {e \in EntriesOf(s2, d.drawing_id) : e.status = "active"}
        num_inactive == Cardinality({e \in EntriesOf(s2, d.drawing_id) :
                                        e.status \in {"inactive", "eliminated"}})
        s3 == Select(Select(s2, "entries", {"entry_id", "drawing_id", "status"}),
                     "entry_users", {"user_id", "entry_id"})
    IN  [s |-> s3, channel |-> st1.channel,
         awaits |-> /\ s3.exc = NoExc
                    /\ Cardinality(active) = 1 /\ num_inactive > 0
                    /\ st1.channel = "channel",
         winner_entry_id |-> IF active = {} THEN NULL ELSE (CHOOSE e \in active : TRUE).entry_id]

(* The task starts a run.  When the run gets to the winner announcement   *)
(* of its first drawing it is suspended there; if not, it is the run of   *)
(* check_drawings above.                                                  *)
check_drawings_announce(open_drawings, chan) ==
    /\ prog = "bot"
    /\ taskAlive
    /\ suspended = NoSweep
    /\ UNCHANGED waiting
    /\ open_drawings \in Orders(OpenDrawings(Session))
    /\ IF open_drawings # <<>> /\ winner_selected(Session, Head(open_drawings), chan).awaits
       THEN /\ Effect(winner_selected(Session, Head(open_drawings), chan).s)
            /\ suspended' = [drawing_id |-> Head(open_drawings).drawing_id,
                             winner_entry_id |->
                                 winner_selected(Session, Head(open_drawings), chan).winner_entry_id,
                             rest |-> Tail(open_drawings), chan |-> chan]
            /\ UNCHANGED <<prog, taskAlive>>
       ELSE Tick(run_check_drawings(Session, open_drawings, chan, {}))

(* The announcement was sent: INSERT INTO results, UPDATE entries,        *)
(* commit (except: print), then the other open drawings.                  *)
winner_recorded(s0, w) ==
    LET s1 == Insert(s0, "results", [drawing_id |-> w.drawing_id, winner_id |-> w.winner_entry_id])
        s2 == Commit(Update(s1, "entries", [entry_id |-> w.winner_entry_id], [status |-> "winner"]))
    IN  sweep([s |-> Caught(s2), channel |-> "channel", log |-> <<>>], w.rest, w.chan, FALSE, {})

check_drawings_resume ==
    /\ suspended # NoSweep
    /\ Effect(winner_recorded(Session, suspended).s)
    /\ taskAlive' = (winner_recorded(Session, suspended).s.exc = NoExc)
    /\ suspended' = NoSweep
    /\ UNCHANGED <<prog, waiting>>

NextSuspend ==
    \/ seq.drawings < MaxDrawingId /\ create_drawing(Raffle)
    \/ start_drawing(Raffle)
    \/ seq.entries < MaxAdds /\ add_entry(Raffle, <<>>, NULL, NoText)
    \/ \E number \in Numbers, status \in {"active", "inactive"} :
          edit_entry(Raffle, number, NULL, NoText, NoText, status)
    \/ \E chan \in Channels : \E order \in Orders(OpenDrawings(Session)) :
          seq.results < MaxResultId /\ check_drawings_announce(order, chan)
    \/ check_drawings_resume

SpecSuspend == InitCapacity /\ [][NextSuspend]_vars

-----------------------------------------------------------------------------
(* delete_drawing with its await on bot.wait_for('message', check=check,  *)
(* timeout=30): the prompts of one admin in one channel.  Each wait_for   *)
(* registers a listener; a message is handed to every listener whose      *)
(* check accepts it.                                                      *)

MaxPrompts == 2        \* delete_drawing calls waiting at a time

(* The command is called: the question is sent and the handler waits *)
delete_drawing_prompt(drawing_name) ==
    /\ Len(waiting) < MaxPrompts
    /\ \A i \in DOMAIN waiting : waiting[i] # drawing_name
    /\ waiting' = Append(waiting, drawing_name)
    /\ UNCHANGED <<prog, db, committed, seq, failed, taskAlive, suspended>>

(* The handlers whose wait_for got the message go on, one after the other *)
RECURSIVE confirmed(_, _, _)
confirmed(s, names, content) ==
    IF names = <<>> THEN s
    ELSE confirmed(delete_drawing_body(s, Head(names), content).s, Tail(names), content)

(* The admin writes yes or no in the channel: check(m) holds for every    *)
(* waiting handler.                                                       *)
on_message(content) ==
    /\ waiting # <<>>
    /\ content \in {"yes", "no"}
    /\ Effect(confirmed(Session, waiting, content))
    /\ waiting' = <<>>
    /\ UNCHANGED <<prog, taskAlive, suspended>>

(* asyncio.TimeoutError in the handler that has waited longest *)
confirmation_timeout ==
    /\ waiting # <<>>
    /\ Effect(delete_drawing_body(Session, Head(waiting), "timeout").s)
    /\ waiting' = Tail(waiting)
    /\ UNCHANGED <<prog, taskAlive, suspended>>

NextConfirm ==
    \/ \E name \in Names : seq.drawings < MaxDrawingId /\ create_drawing(name)
    \/ \E name \in Names, number \in Numbers :
          seq.entries < MaxEntryId /\ add_entry(name, <<>>, number, NoText)
    \/ \E name \in Names : delete_drawing_prompt(name)
    \/ \E content \in {"yes", "no"} : on_message(content)
    \/ confirmation_timeout

SpecConfirm == Init /\ [][NextConfirm]_vars


-----------------------------------------------------------------------------
(* The outcome of each command of the deployed program in the current     *)
(* state, and the session the next command starts from.                   *)

After(out) == [out.s EXCEPT !.exc = NoExc, !.rowcount = 0, !.issued = {}]

join_outcomes(name, user, pick) ==
    IF prog = "bot"
    THEN {join_drawing_body(Session, name, user, pick, NoExc, DirectMessage)}
    ELSE {join_drawing_body(Session, name, user, pick, "NameError", DirectMessage),
          join_drawing_body(Session, name, user, pick, "NameError", NoExc)}

add_entry_outcome(name, users, number) ==
    add_entry_body(Session, name, users, number, NoText,
                   IF prog = "bot" THEN NoExc ELSE "TypeError", DirectMessage)

assign_winner_outcome(name, id) ==
    assign_winner_body(Session, name, id, IF prog = "bot" THEN "TypeError" ELSE NoExc)

archive_outcome(name) == archive_drawing_body(Session, name, prog = "app")

restore_outcome(name) == restore_drawing_body(Session, name)

Live(c, name) == {d \in c.drawings : d.name = name}
EntriesIn(c, drawing_id) == {e \in c.entries : e.drawing_id = drawing_id}


-----------------------------------------------------------------------------
(* C1: in every reachable state no two entries of one drawing carry the   *)
(* same entrant_number.                                                   *)
C1_UniqueEntrantNumbers ==
    \A e1, e2 \in committed.entries :
        (e1.drawing_id = e2.drawing_id /\ e1.entrant_number = e2.entrant_number) => e1 = e2

-----------------------------------------------------------------------------
(* C2: join_drawing on a drawing whose status is closed always replies    *)
(* Closed, and the entries are the same before and after the call.        *)
C2_JoinClosedFailsClosed ==
    \A name \in Names, user \in Users :
        (\E d \in Live(committed, name) : d.status = "closed") =>
            \A pick \in random_choice(name) : \A out \in join_outcomes(name, user, pick) :
                /\ out.result = "Closed"
                /\ out.s.db.entries = db.entries
                /\ out.s.committed.entries = committed.entries

-----------------------------------------------------------------------------
(* C3: when a drawing holds 30 entries, add_entry replies Full and the    *)
(* drawing still holds exactly 30 entries afterwards.                     *)
C3_AddEntryFull ==
    \A d \in committed.drawings :
        Cardinality(EntriesIn(committed, d.drawing_id)) = MaxEntries =>
            \A users \in UserLists, number \in OptionalNumbers :
                /\ add_entry_outcome(d.name, users, number).result = "Full"
                /\ Cardinality(EntriesIn(add_entry_outcome(d.name, users, number).s.committed,
                                         d.drawing_id)) = MaxEntries

-----------------------------------------------------------------------------
(* C4: a user's first join_drawing on an open drawing with a free number  *)
(* succeeds and stores one entry; once the user is in, a further join     *)
(* replies AlreadyJoined and stores none.                                 *)
C4_JoinThenAlreadyJoined ==
    \A name \in Names, user \in Users :
        (~failed /\ \E d \in Live(committed, name) :
                        d.status = "open" /\ available_numbers(Session, d.drawing_id) # {}) =>
            \A pick \in random_choice(name) : \A out \in join_outcomes(name, user, pick) :
                \/ /\ out.result = "Joined"
                   /\ Cardinality(out.s.committed.entries) = Cardinality(committed.entries) + 1
                \/ /\ out.result = "AlreadyJoined"
                   /\ out.s.committed.entries = committed.entries

-----------------------------------------------------------------------------
(* C5: assign_winner on a drawing whose name is prefixed test_ sends no   *)
(* INSERT to results and no UPDATE to entries, and leaves every table as  *)
(* it was, whichever form of identifier is given.                         *)
TestNames == {TestName(n) : n \in BaseNames}

C5_TestDrawingNotPersisted ==
    \A name \in TestNames, id \in Identifiers :
        Live(committed, name) # {} =>
            /\ assign_winner_outcome(name, id).s.issued = {}
            /\ assign_winner_outcome(name, id).s.db = db
            /\ assign_winner_outcome(name, id).s.committed = committed

(* A test drawing exists and assign_winner, given a user mention, gets to *)
(* the test check and replies that the winner is not saved.               *)
C5_Witness ==
    \E name \in TestNames, user \in Users :
        /\ Live(committed, name) # {}
        /\ assign_winner_outcome(name, Mention(user)).result = "TestDrawing"

-----------------------------------------------------------------------------
(* C6: archive_drawing(name) followed at once by restore_drawing(name)    *)
(* succeeds twice and gives back the committed tables it started from:    *)
(* the same drawing, entries and entry_users live, none of them archived. *)
C6_ArchiveRestoreRoundTrip ==
    \A name \in Names :
        (~failed /\ db = committed /\ Live(committed, name) # {}) =>
            /\ archive_outcome(name).result = "Archived"
            /\ restore_drawing_body(After(archive_outcome(name)), name).result = "Restored"
            /\ restore_drawing_body(After(archive_outcome(name)), name).s.committed = committed

-----------------------------------------------------------------------------
(* C7: in every committed state a drawing, its entries and its            *)
(* entry_users rows are in the live tables or in the archived tables,     *)
(* never in both and never split between the two.                         *)
ArchivedIds(c) == {d.drawing_id : d \in c.archived_drawings}
LiveIds(c) == {d.drawing_id : d \in c.drawings}

OneLocation(c) ==
    /\ LiveIds(c) \cap ArchivedIds(c) = {}
    /\ \A e \in c.entries : e.drawing_id \notin ArchivedIds(c)
    /\ \A e \in c.archived_entries : e.drawing_id \notin LiveIds(c)
    /\ {e.entry_id : e \in c.entries} \cap {e.entry_id : e \in c.archived_entries} = {}
    /\ \A u \in c.entry_users : u.entry_id \notin {e.entry_id : e \in c.archived_entries}
    /\ \A u \in c.archived_entry_users : u.entry_id \notin {e.entry_id : e \in c.entries}

C7_ExactlyOneLocation == OneLocation(committed)

(* A live drawing with an entry on which archive_drawing has run its      *)
(* sequence: the drawing and its entry are still live, and only live.     *)
C7_Witness ==
    \E d \in committed.drawings :
        /\ EntriesIn(committed, d.drawing_id) # {}
        /\ "archived_drawings" \in archive_outcome(d.name).s.issued
        /\ d \in archive_outcome(d.name).s.committed.drawings
        /\ d.drawing_id \notin ArchivedIds(archive_outcome(d.name).s.committed)

-----------------------------------------------------------------------------
(* C8: when a step of the copy-then-delete sequence of archive_drawing or *)
(* restore_drawing fails, the call leaves the tables, as the connection   *)
(* sees them and as committed, as they were before it, with no failed     *)
(* transaction left open and the data in one location.                    *)
Undone(out) ==
    out.result = "StepFailed" =>
        /\ out.s.db = db
        /\ out.s.committed = committed
        /\ ~out.s.failed
        /\ OneLocation(out.s.db)

C8_FailedStepUndone ==
    \A name \in Names : Undone(archive_outcome(name)) /\ Undone(restore_outcome(name))

(* archive_drawing finds the drawing and one of its steps fails *)
C8_Witness ==
    \E name \in Names :
        /\ Live(db, name) # {}
        /\ archive_outcome(name).result = "StepFailed"

-----------------------------------------------------------------------------
(* C9: one run of check_drawings closes an open drawing whose time limit  *)
(* has elapsed, with exactly one closure and one announcement of it.      *)
Closures(log, drawing_id) ==
    {i \in DOMAIN log : log[i] \in {<<"timeout", drawing_id>>, <<"capacity", drawing_id>>}}

C9_SweepClosesExpired ==
    \A d \in committed.drawings :
        (taskAlive /\ ~failed /\ db = committed /\ d.status = "open" /\ d.time_limit_hours # NULL) =>
            \A order \in Orders(OpenDrawings(Session)) :
                /\ [d EXCEPT !.status = "closed"]
                       \in run_check_drawings(Session, order, "channel", {d.drawing_id}).s.committed.drawings
                /\ Cardinality(Closures(run_check_drawings(Session, order, "channel",
                                                           {d.drawing_id}).log,
                                        d.drawing_id)) = 1

-----------------------------------------------------------------------------
(* C10: an entry whose committed status is winner keeps that status in    *)
(* every later step.                                                      *)
C10_WinnerTerminal ==
    [][\A e \in committed.entries :
           e.status = "winner" =>
               \A e2 \in committed'.entries : e2.entry_id = e.entry_id => e2.status = "winner"]_vars

-----------------------------------------------------------------------------
(* C11: assign_winner, given the entrant number of an entry of a live     *)
(* drawing that is not a test drawing, succeeds: it records a Result      *)
(* whose winner_id is that entry's id and sets that entry's status to     *)
(* winner.                                                                *)
C11_AssignWinnerRecordsEntry ==
    \A d \in committed.drawings : \A e \in EntriesIn(committed, d.drawing_id) :
        (~failed /\ db = committed /\ ~StartsWithTest(d.name)) =>
            /\ assign_winner_outcome(d.name, EntrantNumber(e.entrant_number)).result = "Assigned"
            /\ \E r \in assign_winner_outcome(d.name, EntrantNumber(e.entrant_number)).s.committed.results :
                   /\ r.drawing_id = d.drawing_id
                   /\ \E w \in EntriesIn(assign_winner_outcome(d.name, EntrantNumber(e.entrant_number)).s.committed,
                                         d.drawing_id) :
                          /\ w.entry_id = r.winner_id
                          /\ w.entrant_number = e.entrant_number
                          /\ w.status = "winner"

-----------------------------------------------------------------------------
(* C12: one run of check_drawings over an open drawing with exactly one   *)
(* active entry and at least one inactive or eliminated entry ends with a *)
(* Result naming the active entry and with that entry's status winner.    *)
ActiveEntries(c, drawing_id) == {e \in EntriesIn(c, drawing_id) : e.status = "active"}
OutEntries(c, drawing_id) ==
    {e \in EntriesIn(c, drawing_id) : e.status \in {"inactive", "eliminated"}}

C12_SweepRecordsLastActive ==
    \A d \in committed.drawings :
        (/\ taskAlive /\ ~failed /\ db = committed
         /\ d.status = "open"
         /\ Cardinality(ActiveEntries(committed, d.drawing_id)) = 1
         /\ OutEntries(committed, d.drawing_id) # {}) =>
            \A order \in Orders(OpenDrawings(Session)) : \A e \in ActiveEntries(committed, d.drawing_id) :
                /\ [drawing_id |-> d.drawing_id, winner_id |-> e.entry_id]
                       \in {[drawing_id |-> r.drawing_id, winner_id |-> r.winner_id] :
                               r \in run_check_drawings(Session, order, "channel", {}).s.committed.results}
                /\ [e EXCEPT !.status = "winner"]
                       \in run_check_drawings(Session, order, "channel", {}).s.committed.entries

-----------------------------------------------------------------------------
(* C13: the periodic task is never stopped by a failure, and a run of it  *)
(* over an open drawing whose time limit has elapsed ends without an      *)
(* exception and with that drawing closed, whatever the other open        *)
(* drawings and whether or not the channel is available.                  *)
C13_TimerKeepsClosingExpired ==
    /\ taskAlive
    /\ \A d \in committed.drawings :
           (~failed /\ db = committed /\ d.status = "open" /\ d.time_limit_hours # NULL) =>
               \A order \in Orders(OpenDrawings(Session)), chan \in Channels :
                   /\ run_check_drawings(Session, order, chan, {d.drawing_id}).s.exc = NoExc
                   /\ \E x \in run_check_drawings(Session, order, chan,
                                                  {d.drawing_id}).s.committed.drawings :
                          x.drawing_id = d.drawing_id /\ x.status = "closed"

-----------------------------------------------------------------------------
(* C14: when a run of check_drawings completes, every drawing that was    *)
(* open with 30 or more entries when the run processed it is closed.      *)
C14_SweepClosesFull ==
    \A order \in Orders(OpenDrawings(Session)), chan \in Channels :
        (taskAlive /\ run_check_drawings(Session, order, chan, {}).s.exc = NoExc) =>
            \A d \in OpenDrawings(Session) :
                Cardinality(EntriesOf(Session, d.drawing_id)) >= MaxEntries =>
                    \E x \in run_check_drawings(Session, order, chan, {}).s.committed.drawings :
                        x.drawing_id = d.drawing_id /\ x.status = "closed"

(* An open drawing holds 30 entries and a run of check_drawings over it   *)
(* completes, with or without the channel.                                *)
C14_Witness ==
    \E d \in OpenDrawings(Session) :
        /\ taskAlive
        /\ Cardinality(EntriesOf(Session, d.drawing_id)) = MaxEntries
        /\ \A chan \in Channels :
               /\ run_check_drawings(Session, <<d>>, chan, {}).s.exc = NoExc
               /\ <<"capacity", d.drawing_id>> \in
                      {run_check_drawings(Session, <<d>>, chan, {}).log[i] :
                          i \in DOMAIN run_check_drawings(Session, <<d>>, chan, {}).log}

-----------------------------------------------------------------------------
(* C15: create_drawing(name), when a live drawing of that name exists,    *)
(* replies AlreadyExists and leaves the committed drawings and entries as *)
(* they were; the names of the live drawings are pairwise distinct.       *)
C15_CreateExistingFails ==
    /\ \A d1, d2 \in committed.drawings : d1.name = d2.name => d1 = d2
    /\ \A name \in Names :
           Live(committed, name) # {} =>
               /\ create_drawing_body(Session, name).result = "AlreadyExists"
               /\ create_drawing_body(Session, name).s.committed.drawings = committed.drawings
               /\ create_drawing_body(Session, name).s.committed.entries = committed.entries

-----------------------------------------------------------------------------
(* C16: every drawing that appears in the committed tables, whichever     *)
(* operation created it, appears with status closed.                      *)
C16_NewDrawingsStartClosed ==
    [][\A d2 \in committed'.drawings :
           d2.drawing_id \notin LiveIds(committed) => d2.status = "closed"]_vars

(* C16, as the code has it: create_drawing stores one new drawing, of the *)
(* given name, with status closed; create_test_drawing stores one new     *)
(* drawing, named test_ and the given name, with status open; a drawing   *)
(* goes from closed to open only in a step of start_drawing or of         *)
(* set_drawing_status with the status open.                               *)
NewDrawings(out) == out.s.committed.drawings \ committed.drawings

CreatedWith(out, name, status) ==
    out.result = "Created" =>
        /\ Cardinality(NewDrawings(out)) = 1
        /\ \A d \in NewDrawings(out) : d.name = name /\ d.status = status

C16_CreatedClosedTestOpen ==
    [][/\ \A name \in Names : CreatedWith(create_drawing_body(Session, name), name, "closed")
       /\ \A name \in BaseNames :
              CreatedWith(create_test_drawing_body(Session, name), TestName(name), "open")
       /\ \A d \in committed.drawings, d2 \in committed'.drawings :
              (d2.drawing_id = d.drawing_id /\ d.status = "closed" /\ d2.status = "open") =>
                  \E name \in Names : \/ start_drawing(name)
                                      \/ start_drawing_slash(name)
                                      \/ set_drawing_status(name, "open")]_vars

(* A drawing made by create_drawing is in the tables, closed, next to a   *)
(* test drawing made by create_test_drawing, open.                        *)
C16_Witness ==
    \E d1, d2 \in committed.drawings :
        /\ ~StartsWithTest(d1.name) /\ d1.status = "closed"
        /\ StartsWithTest(d2.name) /\ d2.status = "open"
        /\ seq.drawings = 2

-----------------------------------------------------------------------------
(* The outcome of the open and close commands of the deployed program *)
start_outcome(name) ==
    update_drawing_body(Session, name,
                        IF prog = "bot" THEN [status |-> "open"]
                        ELSE [status |-> "open", start_time |-> "now"], "Started")

stop_outcome(name) ==
    update_drawing_body(Session, name,
                        IF prog = "bot" THEN [status |-> "closed"]
                        ELSE [status |-> "closed", start_time |-> NULL], "Stopped")

(* C17: on a live drawing the open command succeeds and leaves the        *)
(* drawing open with start_time the time of the call; on a name of no     *)
(* live drawing it replies NotFound and changes nothing.                  *)
C17_OpenSetsStartTime ==
    \A name \in Names :
        (~failed /\ db = committed) =>
            IF Live(committed, name) # {}
            THEN /\ start_outcome(name).result = "Started"
                 /\ \A d \in Live(start_outcome(name).s.committed, name) :
                        /\ d.status = "open"
                        /\ "start_time" \in DOMAIN d
                        /\ d.start_time = "now"
            ELSE /\ start_outcome(name).result = "NotFound"
                 /\ start_outcome(name).s.committed = committed
                 /\ start_outcome(name).s.db = db
                 /\ ~start_outcome(name).s.failed

-----------------------------------------------------------------------------
(* C18: on a live drawing the close command succeeds and leaves the       *)
(* drawing closed with no start_time; on a name of no live drawing it     *)
(* replies NotFound and changes nothing.                                  *)
C18_CloseClearsStartTime ==
    \A name \in Names :
        (~failed /\ db = committed) =>
            IF Live(committed, name) # {}
            THEN /\ stop_outcome(name).result = "Stopped"
                 /\ \A d \in Live(stop_outcome(name).s.committed, name) :
                        /\ d.status = "closed"
                        /\ "start_time" \in DOMAIN d => d.start_time = NULL
            ELSE /\ stop_outcome(name).result = "NotFound"
                 /\ stop_outcome(name).s.committed = committed
                 /\ stop_outcome(name).s.db = db
                 /\ ~stop_outcome(name).s.failed

-----------------------------------------------------------------------------
(* C19: add_entry on a drawing whose status is closed replies Closed and  *)
(* stores no entry and no entry_users row.                                *)
C19_AddEntryClosedFails ==
    \A d \in committed.drawings :
        (~failed /\ db = committed /\ d.status = "closed") =>
            \A users \in UserLists, number \in OptionalNumbers :
                /\ add_entry_outcome(d.name, users, number).result = "Closed"
                /\ add_entry_outcome(d.name, users, number).s.committed.entries = committed.entries
                /\ add_entry_outcome(d.name, users, number).s.committed.entry_users
                       = committed.entry_users

-----------------------------------------------------------------------------
(* C20: a join_drawing that succeeds stores one new entry whose entrant   *)
(* number lies in 1..30 and was held by no entry of the drawing; when     *)
(* every number in 1..30 is taken, join_drawing replies Full and stores   *)
(* no entry.                                                              *)
TakenNumbers(c, drawing_id) == {e.entrant_number : e \in EntriesIn(c, drawing_id)}

C20_JoinPicksFreeNumber ==
    \A d \in committed.drawings : \A user \in Users :
        d.status = "open" =>
            \A pick \in random_choice(d.name) : \A out \in join_outcomes(d.name, user, pick) :
                /\ out.result = "Joined" =>
                       /\ Cardinality(out.s.committed.entries \ committed.entries) = 1
                       /\ \A e \in out.s.committed.entries \ committed.entries :
                              /\ e.drawing_id = d.drawing_id
                              /\ e.entrant_number \in 1..MaxEntries
                              /\ e.entrant_number \notin TakenNumbers(committed, d.drawing_id)
                /\ 1..MaxEntries \subseteq TakenNumbers(committed, d.drawing_id) =>
                       /\ out.result = "Full"
                       /\ out.s.committed.entries = committed.entries

-----------------------------------------------------------------------------
(* add_entry of the deployed program, invoked after the command `out` *)
add_entry_again(out, name, users, number) ==
    add_entry_body(After(out), name, users, number, NoText,
                   IF prog = "bot" THEN NoExc ELSE "TypeError", DirectMessage)

(* The users of the entries of a drawing *)
UsersIn(c, drawing_id) ==
    {u.user_id : u \in {x \in c.entry_users :
                           \E e \in EntriesIn(c, drawing_id) : e.entry_id = x.entry_id}}

(* C21: no user is in two entries of one drawing; add_entry naming a user *)
(* associates the user with the new entry, and a further add_entry naming *)
(* the same user in the same drawing replies DuplicateUser and stores no  *)
(* entry.                                                                 *)
C21_OneEntryPerUser ==
    /\ \A u1, u2 \in committed.entry_users : \A e1, e2 \in committed.entries :
           (/\ u1.user_id = u2.user_id
            /\ e1.entry_id = u1.entry_id /\ e2.entry_id = u2.entry_id
            /\ e1.drawing_id = e2.drawing_id) => e1 = e2
    /\ \A d \in committed.drawings : \A u \in Users :
           (~failed /\ db = committed /\ EntriesIn(committed, d.drawing_id) = {}) =>
               /\ u \in UsersIn(add_entry_outcome(d.name, <<u>>, NULL).s.committed, d.drawing_id)
               /\ add_entry_again(add_entry_outcome(d.name, <<u>>, NULL),
                                  d.name, <<u>>, NULL).result = "DuplicateUser"
               /\ add_entry_again(add_entry_outcome(d.name, <<u>>, NULL),
                                  d.name, <<u>>, NULL).s.committed.entries
                      = add_entry_outcome(d.name, <<u>>, NULL).s.committed.entries

-----------------------------------------------------------------------------
(* C22: remove_entry for a user of an entry of the drawing deletes that   *)
(* entry and all its entry_users rows, leaving no entry_users row without *)
(* its entry; for a user with no entry in the drawing it replies that     *)
(* there is none and changes nothing.                                     *)
NoOrphanUsers(c) == \A u \in c.entry_users : \E e \in c.entries : e.entry_id = u.entry_id

C22_RemoveEntryRemovesAll ==
    \A d \in committed.drawings : \A u \in Users :
        (~failed /\ db = committed) =>
            IF u \in UsersIn(committed, d.drawing_id)
            THEN /\ remove_entry_body(Session, d.name, u).result = "Removed"
                 /\ u \notin UsersIn(remove_entry_body(Session, d.name, u).s.committed, d.drawing_id)
                 /\ NoOrphanUsers(remove_entry_body(Session, d.name, u).s.committed)
            ELSE /\ remove_entry_body(Session, d.name, u).result \in {"NoEntry", "NotFound"}
                 /\ remove_entry_body(Session, d.name, u).s.committed = committed
                 /\ remove_entry_body(Session, d.name, u).s.db = db
                 /\ ~remove_entry_body(Session, d.name, u).s.failed

-----------------------------------------------------------------------------
(* C23: delete_drawing, confirmed with yes, on a live drawing removes the *)
(* drawing with all its entries and their entry_users rows, whether or    *)
(* not it has entries or a Result; afterwards every entry belongs to a    *)
(* live drawing.                                                          *)
C23_DeleteCascades ==
    \A d \in committed.drawings :
        (~failed /\ db = committed) =>
            /\ delete_drawing_body(Session, d.name, "yes").result = "Deleted"
            /\ d.drawing_id \notin LiveIds(delete_drawing_body(Session, d.name, "yes").s.committed)
            /\ \A e \in delete_drawing_body(Session, d.name, "yes").s.committed.entries :
                   e.drawing_id \in LiveIds(delete_drawing_body(Session, d.name, "yes").s.committed)
            /\ NoOrphanUsers(delete_drawing_body(Session, d.name, "yes").s.committed)

-----------------------------------------------------------------------------
(* C24: delete_drawing answered with no, or not answered within the 30    *)
(* seconds, sends no statement and leaves the drawings and entries as     *)
(* they were; only the answer yes gets to the DELETE.                     *)
C24_DeleteNeedsYes ==
    \A name \in Names :
        /\ delete_drawing_body(Session, name, "no").result = "Cancelled"
        /\ delete_drawing_body(Session, name, "timeout").result = "TimedOut"
        /\ \A msg \in Replies \ {"yes"} :
               /\ delete_drawing_body(Session, name, msg).s.issued = {}
               /\ delete_drawing_body(Session, name, msg).s.db = db
               /\ delete_drawing_body(Session, name, msg).s.committed = committed
        /\ delete_drawing_body(Session, name, "yes").result \in {"Deleted", "NotFound", "Error"}

(* A drawing that the answer yes deletes and that the answer no and the   *)
(* timeout leave in place.                                                *)
C24_Witness ==
    \E d \in committed.drawings :
        /\ delete_drawing_body(Session, d.name, "yes").result = "Deleted"
        /\ d \notin delete_drawing_body(Session, d.name, "yes").s.committed.drawings
        /\ d \in delete_drawing_body(Session, d.name, "no").s.committed.drawings
        /\ d \in delete_drawing_body(Session, d.name, "timeout").s.committed.drawings

-----------------------------------------------------------------------------
(* edit_entry of the deployed program in the current state *)
edit_entry_outcome(name, number, new_number, new_name, status) ==
    edit_entry_body(Session, name, number, new_number, new_name, NoText, status,
                    IF prog = "bot" THEN "TypeError" ELSE NoExc)

(* C25: edit_entry on a live drawing with a status other than active,     *)
(* inactive or eliminated replies InvalidStatus and leaves the entries as *)
(* they were, also when a new number or a new name comes with it.         *)
C25_EditRejectsOtherStatus ==
    \A d \in committed.drawings : \A number \in Numbers, e \in Edits :
        \A status \in {"pending", "winner"} :
            /\ edit_entry_outcome(d.name, number, e.number, e.name, status).result = "InvalidStatus"
            /\ edit_entry_outcome(d.name, number, e.number, e.name, status).s.db = db
            /\ edit_entry_outcome(d.name, number, e.number, e.name, status).s.committed = committed

-----------------------------------------------------------------------------
(* C26: no operation returns with the shared connection inside a failed   *)
(* transaction, so a create_drawing of a fresh name that follows any      *)
(* operation is carried out and replies Created.                          *)
C26_NoFailedTransaction ==
    /\ ~failed
    /\ \A name \in Names :
           DrawingsNamed(Session, name) = {}
               => create_drawing_body(Session, name).result = "Created"

-----------------------------------------------------------------------------
(* C27: an add_entry that fails after its INSERT into entries persists    *)
(* neither the entry nor any entry-user row: the failing call commits     *)
(* nothing and leaves nothing pending on the connection, and no handler   *)
(* ever returns with an uncommitted entry that a later commit could save. *)
C27_AddEntryAtomic ==
    /\ db.entries = committed.entries
    /\ db.entry_users = committed.entry_users
    /\ \A name \in Names, users \in UserLists, number \in OptionalNumbers :
           /\ "entries" \in add_entry_outcome(name, users, number).s.issued
           /\ add_entry_outcome(name, users, number).result \notin {"Added", "NoUsersAdded"}
           => /\ add_entry_outcome(name, users, number).s.committed = committed
              /\ add_entry_outcome(name, users, number).s.db.entries = committed.entries
              /\ add_entry_outcome(name, users, number).s.db.entry_users = committed.entry_users

(* On a healthy connection an add_entry with a user inserted the entry,   *)
(* was refused the entry-user row, and replied with an error.             *)
C27_Witness ==
    /\ ~failed
    /\ \E name \in Names, users \in UserLists \ {<<>>} :
           /\ {"entries", "entry_users"} \subseteq add_entry_outcome(name, users, NULL).s.issued
           /\ add_entry_outcome(name, users, NULL).result = "Error"
           /\ add_entry_outcome(name, users, NULL).s.failed

-----------------------------------------------------------------------------
(* C28: archive_drawing replies Archived for every live drawing and       *)
(* restore_drawing replies Restored for every archived drawing; the only  *)
(* other reply of either is NotFound.                                     *)
C28_ArchiveRestoreAlwaysSucceed ==
    \A name \in Names :
        /\ archive_outcome(name).result \in {"Archived", "NotFound"}
        /\ restore_outcome(name).result \in {"Restored", "NotFound"}
        /\ Live(committed, name) # {} => archive_outcome(name).result = "Archived"
        /\ Live([drawings |-> committed.archived_drawings], name) # {}
               => restore_outcome(name).result = "Restored"

-----------------------------------------------------------------------------
(* The join_drawing of a second caller, carried out by the event loop     *)
(* once the handler of the first has returned `out`.                      *)
join_after(out, name, user, pick) ==
    IF prog = "bot"
    THEN {join_drawing_body(After(out), name, user, pick, NoExc, DirectMessage)}
    ELSE {join_drawing_body(After(out), name, user, pick, "NameError", DirectMessage),
          join_drawing_body(After(out), name, user, pick, "NameError", NoExc)}

(* C29: two join_drawing calls made at the same time on an open drawing,  *)
(* each with a number that was free when they were made, never commit two *)
(* entries with one entrant_number, and each caller is told that it       *)
(* joined, that the drawing is full or that it has to try again: neither  *)
(* gets a storage error or an exception that leaves the handler.          *)
C29_ConcurrentJoinsSafe ==
    \A d \in {x \in committed.drawings : x.status = "open"} :
        \A u1, u2 \in Users, p1, p2 \in random_choice(d.name) :
            \A out1 \in join_outcomes(d.name, u1, p1) :
                \A out2 \in join_after(out1, d.name, u2, p2) :
                    /\ out1.result \in {"Joined", "Full", "AlreadyJoined"}
                    /\ out2.result \in {"Joined", "Full", "AlreadyJoined"}
                    /\ \A e1, e2 \in EntriesIn(out2.s.committed, d.drawing_id) :
                           e1.entrant_number = e2.entrant_number => e1 = e2

-----------------------------------------------------------------------------
(* C30: a drawing whose name starts with test_ never has a row in results *)
(* and none of its entries has the status winner.                         *)
C30_TestDrawingSavesNoResult ==
    \A d \in committed.drawings :
        StartsWithTest(d.name) =>
            /\ \A r \in committed.results : r.drawing_id # d.drawing_id
            /\ \A e \in EntriesIn(committed, d.drawing_id) : e.status # "winner"

-----------------------------------------------------------------------------
-----------------------------------------------------------------------------
(* C32: every entry's entrant_number lies in 1..30, also after an         *)
(* add_entry that is given a number next to the pool.                     *)
C32_NumbersInPool ==
    /\ \A e \in committed.entries : e.entrant_number \in 1..MaxEntries
    /\ \A name \in Names, number \in {0, MaxEntries + 1} :
           \A e \in add_entry_outcome(name, <<>>, number).s.committed.entries :
               e.entrant_number \in 1..MaxEntries

-----------------------------------------------------------------------------
(* C33: in every reachable state each drawing has at most one row in      *)
(* results.                                                               *)
C33_OneResultPerDrawing ==
    \A r1, r2 \in committed.results : r1.drawing_id = r2.drawing_id => r1 = r2

-----------------------------------------------------------------------------
(* The entries of the drawing that carry the entrant number *)
Numbered(c, drawing_id, number) ==
    {x \in EntriesIn(c, drawing_id) : x.entrant_number = number}

(* Every entry is left as it was, but for the entry `target`, which keeps *)
(* its id, its drawing and every field the call did not supply.           *)
OnlyEdited(before, after, target, e) ==
    /\ {x.entry_id : x \in after} = {x.entry_id : x \in before}
    /\ \A x \in before : x.entry_id # target.entry_id => x \in after
    /\ \A y \in after :
           y.entry_id = target.entry_id =>
               /\ y.drawing_id = target.drawing_id
               /\ y.eliminated_by = target.eliminated_by
               /\ e.number = NULL => y.entrant_number = target.entrant_number
               /\ e.name = NoText => y.entrant_name = target.entrant_name
               /\ e.status = None => y.status = target.status

(* C34: edit_entry changes only the supplied fields of the one entry with *)
(* the given number in the named drawing and leaves every other entry,    *)
(* the drawings and the results as they were; when no entry has the       *)
(* number it replies that there is no such entry and changes nothing.     *)
C34_EditEntryPartialUpdate ==
    \A d \in committed.drawings : \A number \in Numbers :
        \A e \in {x \in Edits : x.status = None \/ x.status \in EditStatuses} :
            /\ edit_entry_outcome(d.name, number, e.number, e.name, e.status).s.committed.drawings = committed.drawings
            /\ edit_entry_outcome(d.name, number, e.number, e.name, e.status).s.committed.results = committed.results
            /\ edit_entry_outcome(d.name, number, e.number, e.name, e.status).s.committed.entry_users = committed.entry_users
            /\ Numbered(committed, d.drawing_id, number) = {} =>
                   /\ edit_entry_outcome(d.name, number, e.number, e.name, e.status).s.committed = committed
                   /\ edit_entry_outcome(d.name, number, e.number, e.name, e.status).result \in {"NoEntry", "NothingToEdit"}
            /\ \A target \in Numbered(committed, d.drawing_id, number) :
                   OnlyEdited(committed.entries, edit_entry_outcome(d.name, number, e.number, e.name, e.status).s.committed.entries, target, e)

-----------------------------------------------------------------------------
(* eliminated_by: the argument is kept as the sequence of its             *)
(* comma-separated tokens, each token one character long.                 *)

Tokens == {<<"1">>, <<"2">>, <<"x">>}
EliminatedBys == {<<t>> : t \in Tokens} \cup {<<t1, t2>> : t1, t2 \in Tokens}

(* int(eliminated_by_item); NULL stands for ValueError *)
int(item) == IF item = <<"1">> THEN 1 ELSE IF item = <<"2">> THEN 2 ELSE NULL

(* sep.join(list) *)
RECURSIVE join(_, _)
join(sep, list) ==
    IF list = <<>> THEN <<>>
    ELSE IF Len(list) = 1 THEN list[1]
    ELSE list[1] \o <<sep>> \o join(sep, Tail(list))

(* for eliminated_by_item in eliminated_by: the characters of the string *)
characters(tokens) ==
    [i \in 1..(2 * Len(tokens) - 1) |-> IF i % 2 = 1 THEN tokens[(i + 1) \div 2] ELSE <<",">>]

RowTuple == <<"(row)">>     \* cursor.fetchone() appended as it is: a tuple, not a str
NoRow == <<"None[0]">>      \* cursor.fetchone()[0] when there is no row

(* The body of the loop for each item: SELECT entrant_name FROM entries   *)
(* WHERE drawing_id = %s AND entrant_number = %s for a numeric item.      *)
(* `subscript`: the row is read with [0] (edit_entry_cmd) or appended     *)
(* whole (edit_entry_slash, edit_entry).                                  *)
eliminated_by_processed(s, drawing_id, items, subscript) ==
    [i \in DOMAIN items |->
        LET rows == {e \in EntriesOf(s, drawing_id) : e.entrant_number = int(items[i])}
            eliminated_by_name == (CHOOSE e \in rows : TRUE).entrant_name
        IN  IF int(items[i]) = NULL THEN items[i]
            ELSE IF rows = {} THEN (IF subscript THEN NoRow ELSE items[i])
            ELSE IF ~subscript THEN RowTuple
            ELSE IF eliminated_by_name = NoText THEN items[i]
            ELSE eliminated_by_name]

(* The value put into the SET clause, and the exception that keeps the    *)
(* handler from getting there.                                            *)
eliminated_by_str(s, list, looked_up) ==
    IF s.failed /\ \E i \in DOMAIN looked_up : int(looked_up[i]) # NULL
    THEN [exc |-> "InFailedSqlTransaction", value |-> NoText]
    ELSE IF \E i \in DOMAIN list : list[i] \in {RowTuple, NoRow}
    THEN [exc |-> "TypeError", value |-> NoText]
    ELSE [exc |-> NoExc, value |-> join(", ", list)]

(* app.py edit_entry_slash: the loop runs over the string, and appends to *)
(* the list of tokens                                                     *)
eliminated_by_slash(s, drawing_id, tokens) ==
    eliminated_by_str(s, tokens \o eliminated_by_processed(s, drawing_id, characters(tokens), FALSE),
                      characters(tokens))

(* app.py edit_entry (text command) *)
eliminated_by_text(s, drawing_id, tokens) ==
    eliminated_by_str(s, eliminated_by_processed(s, drawing_id, tokens, FALSE), tokens)

(* app.py edit_entry_cmd behind edit_entry_web *)
eliminated_by_cmd(s, drawing_id, tokens) ==
    eliminated_by_str(s, eliminated_by_processed(s, drawing_id, tokens, TRUE), tokens)

(* bot.py edit_entry: the argument goes into the SET clause as given *)
eliminated_by_bot(tokens) == [exc |-> NoExc, value |-> join(",", tokens)]


(* The eliminated_by values the variants of the deployed program put into *)
(* the UPDATE for the tokens                                              *)
eliminated_by_values(drawing_id, tokens) ==
    IF prog = "bot" THEN {eliminated_by_bot(tokens)}
    ELSE {eliminated_by_slash(Session, drawing_id, tokens),
          eliminated_by_text(Session, drawing_id, tokens),
          eliminated_by_cmd(Session, drawing_id, tokens)}

(* The tokens with each number of an entrant of the drawing replaced by   *)
(* the name of that entrant                                               *)
Resolved(c, drawing_id, tokens) ==
    [i \in DOMAIN tokens |->
        IF int(tokens[i]) # NULL /\ Numbered(c, drawing_id, int(tokens[i])) # {}
        THEN (CHOOSE e \in Numbered(c, drawing_id, int(tokens[i])) : TRUE).entrant_name
        ELSE tokens[i]]

(* C35: for an eliminated_by of comma-separated tokens every variant of   *)
(* edit_entry stores the tokens in their order, each number of an entrant *)
(* of the drawing replaced by that entrant's name, the others as given,   *)
(* and nothing more.                                                      *)
C35_EliminatedByResolved ==
    \A d \in committed.drawings : \A tokens \in EliminatedBys :
        /\ \A v \in eliminated_by_values(d.drawing_id, tokens) :
               /\ v.exc = NoExc
               /\ v.value \in {join(", ", Resolved(committed, d.drawing_id, tokens)),
                               join(",", Resolved(committed, d.drawing_id, tokens))}
        /\ \A number \in Numbers :
               \A x \in Numbered(edit_entry_body(Session, d.name, number, NULL, NoText, eliminated_by_bot(tokens).value, None, "TypeError").s.committed, d.drawing_id, number) :
                   prog = "bot" /\ ~failed =>
                       x.eliminated_by \in {join(", ", Resolved(committed, d.drawing_id, tokens)),
                                            join(",", Resolved(committed, d.drawing_id, tokens))}

-----------------------------------------------------------------------------
-----------------------------------------------------------------------------
(* The commands that close a drawing, as the deployed program runs them *)
close_outcomes(name) ==
    {stop_outcome(name), set_drawing_status_body(Session, name, "closed")}

(* C37: a closed drawing has no start_time, and each command that closes  *)
(* an open drawing closes it and leaves it without a start_time.          *)
C37_ClosedHasNoStartTime ==
    /\ \A d \in committed.drawings :
           d.status = "closed" /\ "start_time" \in DOMAIN d => d.start_time = NULL
    /\ \A d \in committed.drawings :
           (d.status = "open" /\ ~failed /\ db = committed) =>
               \A out \in close_outcomes(d.name) :
                   /\ out.result \in {"Stopped", "StatusSet"}
                   /\ \A x \in Live(out.s.committed, d.name) :
                          /\ x.status = "closed"
                          /\ "start_time" \in DOMAIN x => x.start_time = NULL

-----------------------------------------------------------------------------
(* C38: whenever a Result is committed, the entry it names is at that     *)
(* moment an entry of the drawing and the only active one, also when      *)
(* commands ran while the sweep awaited its winner announcement.          *)
C38_ResultNamesOnlyActive ==
    [][\A r \in committed'.results \ committed.results :
           {e.entry_id : e \in ActiveEntries(committed, r.drawing_id)} = {r.winner_id}]_vars

-----------------------------------------------------------------------------
(* C39: one message of the admin confirms at most one of the waiting      *)
(* delete_drawing calls: no step deletes more than one drawing.           *)
C39_OneYesOneDelete ==
    [][Cardinality(LiveIds(committed) \ LiveIds(committed')) <= 1]_vars

=============================================================================
